---- MODULE Spec2Model ----
(***************************************************************************)
(* The WhatsApp webhook relay of paper-bot: app.py (handle_message),       *)
(* whatsapp_service.py, data_service.py, rag_service.py, llm_service.py.   *)
(*                                                                         *)
(* One webhook worker handles POST /whatsapp requests one after another.   *)
(* The external collaborators (Supabase store, Bedrock, Pinecone,          *)
(* OpenRouter, WhatsApp Cloud API) answer nondeterministically: each call  *)
(* succeeds, raises, or answers with an unexpectedly shaped reply.         *)
(*                                                                         *)
(* Spec       POST /whatsapp, the handler step by step                     *)
(* SpecLlm    get_llm_response called on its own                           *)
(* SpecVerify GET /whatsapp, the verification handshake                    *)
(* SpecAdds   add_message_to_history called by concurrent workers          *)
(***************************************************************************)
EXTENDS Integers, Sequences, FiniteSets, TLC

(***************************************************************************)
(* Bounds of the model and constants of the program.                       *)
(***************************************************************************)
\* number of POST /whatsapp requests handled in one behaviour
MaxRequests == 2
\* largest number of rows the known sender holds before the first request
MaxPrefill == 20
\* data_service.py: "if message_count > 20", "message_count - 20"
HistoryLimit == 20
\* data_service.py: get_conversation_history(..., limit: int = 20)
DefaultLimit == 20
\* number of workers that call add_message_to_history concurrently
MaxWorkers == 2

(***************************************************************************)
(* Python values, as far as the code inspects them.  A value is a record   *)
(* with a tag; an exception in flight is the value Raise(type).            *)
(***************************************************************************)
PyNone == [tag |-> "none"]
PyStr(s) == [tag |-> "str", s |-> s]
PyInt(n) == [tag |-> "int", n |-> n]
PyList(items) == [tag |-> "list", items |-> items]
PyDict(d) == [tag |-> "dict", d |-> d]
\* a str whose characters matter (it is parsed): kept as its lexemes
PyText(toks) == [tag |-> "text", toks |-> toks]
PyTuple(a, b) == [tag |-> "tuple", fst |-> a, snd |-> b]
Raise(type) == [tag |-> "exc", type |-> type]
IsExc(v) == v.tag = "exc"
EmptyDict == [k \in {} |-> PyNone]

\* bool(v): None, "", 0, [] and {} are falsy
Truthy(v) ==
    CASE v.tag = "none" -> FALSE
      [] v.tag = "str"  -> v.s # ""
      [] v.tag = "text" -> Len(v.toks) > 0
      [] v.tag = "int"  -> v.n # 0
      [] v.tag = "list" -> Len(v.items) > 0
      [] v.tag = "dict" -> DOMAIN v.d # {}
      [] OTHER          -> TRUE

\* v.get(k, default): only a dict has the method
DictGet(v, k, default) ==
    IF v.tag = "dict"
    THEN IF k \in DOMAIN v.d THEN v.d[k] ELSE default
    ELSE Raise("AttributeError")

\* v[0]: the keys of a decoded JSON object are strings, so 0 is never one;
\* the first character of a non-empty str is a one-character str
Subscript0(v) ==
    CASE v.tag = "list" -> IF Len(v.items) > 0 THEN v.items[1] ELSE Raise("IndexError")
      [] v.tag = "dict" -> Raise("KeyError")
      [] v.tag = "str"  -> IF v.s # "" THEN PyStr("c") ELSE Raise("IndexError")
      [] v.tag = "text" -> IF Len(v.toks) > 0 THEN PyStr("c") ELSE Raise("IndexError")
      [] OTHER          -> Raise("TypeError")

\* v['k']
SubscriptKey(v, k) ==
    CASE v.tag = "dict" -> IF k \in DOMAIN v.d THEN v.d[k] ELSE Raise("KeyError")
      [] OTHER          -> Raise("TypeError")

\* v == 'lit'
EqStr(v, lit) == v.tag = "str" /\ v.s = lit

(***************************************************************************)
(* whatsapp_service.parse_whatsapp_message                                 *)
(***************************************************************************)
NotAMessage == PyTuple(PyNone, PyNone)

\* the body of the try block: a (sender, text) tuple, the fall-through to
\* "return None, None", or the exception raised
ParseTry(payload) ==
    LET entry    == DictGet(payload, "entry", PyNone)
        entry0   == Subscript0(entry)
        changes  == DictGet(entry0, "changes", PyNone)
        change0  == Subscript0(changes)
        value    == DictGet(change0, "value", PyNone)
        messages == DictGet(value, "messages", PyNone)
        message_details == Subscript0(messages)
        shown    == DictGet(message_details, "type", PyStr("unknown"))
        type     == SubscriptKey(message_details, "type")
        from     == SubscriptKey(message_details, "from")
        text     == SubscriptKey(message_details, "text")
        body     == SubscriptKey(text, "body")
    IN  IF IsExc(entry) THEN entry
        ELSE IF ~Truthy(entry) THEN NotAMessage
        ELSE IF IsExc(entry0) THEN entry0
        ELSE IF IsExc(changes) THEN changes
        ELSE IF ~Truthy(changes) THEN NotAMessage
        ELSE IF IsExc(change0) THEN change0
        ELSE IF IsExc(value) THEN value
        ELSE IF ~Truthy(value) THEN NotAMessage
        ELSE IF IsExc(messages) THEN messages
        ELSE IF ~Truthy(messages) THEN NotAMessage
        ELSE IF IsExc(message_details) THEN message_details
        ELSE IF IsExc(shown) THEN shown
        ELSE IF IsExc(type) THEN type
        ELSE IF ~EqStr(type, "text") THEN NotAMessage
        ELSE IF IsExc(from) THEN from
        ELSE IF IsExc(text) THEN text
        ELSE IF IsExc(body) THEN body
        ELSE PyTuple(from, body)

\* except (KeyError, IndexError): fall through to "return None, None";
\* any other exception leaves the function
parse_whatsapp_message(payload) ==
    LET r == ParseTry(payload)
    IN  IF IsExc(r) /\ r.type \in {"KeyError", "IndexError"} THEN NotAMessage ELSE r

(***************************************************************************)
(* Inbound payloads: the Cloud API envelope around a messages list, and    *)
(* the shapes a webhook body takes when it is not a text message.          *)
(***************************************************************************)
KnownSender == "11234567890"
UnknownSender == "0987654321"
Senders == {KnownSender, UnknownSender}
Queries == {"Is breakfast included?"}

Envelope(value) ==
    PyDict([object |-> PyStr("whatsapp_business_account"),
            entry  |-> PyList(<<PyDict([id |-> PyStr("ACCOUNT_ID"),
                        changes |-> PyList(<<PyDict([value |-> value,
                                                     field |-> PyStr("messages")])>>)])>>)])

WithMessages(messages) ==
    Envelope(PyDict([messaging_product |-> PyStr("whatsapp"), messages |-> messages]))

TextMessage(from, body) ==
    PyDict([from |-> PyStr(from), id |-> PyStr("MSG_ID"), type |-> PyStr("text"),
            text |-> PyDict([body |-> PyStr(body)])])

TextPayloads ==
    {WithMessages(PyList(<<TextMessage(p, q)>>)) : p \in Senders, q \in Queries}

OtherPayloads ==
    { PyNone,                                                  \* body "null"
      PyList(<<>>),                                            \* body "[]"
      PyDict([object |-> PyStr("something_else")]),            \* no entry
      PyDict([entry |-> PyList(<<>>)]),                        \* empty entry list
      PyDict([entry |-> PyStr("x")]),                          \* entry is a str
      PyDict([entry |-> PyDict([id |-> PyStr("ACCOUNT_ID")])]),\* entry is an object
      PyDict([entry |-> PyList(<<PyDict([changes |-> PyList(<<>>)])>>)]),
      Envelope(PyDict([statuses |-> PyList(<<PyDict([status |-> PyStr("delivered")])>>)])),
      WithMessages(PyList(<<>>)),                              \* empty messages list
      WithMessages(PyDict([from |-> PyStr(KnownSender)])),     \* messages is an object
      WithMessages(PyList(<<PyStr("hello")>>)),                \* a message that is a str
      WithMessages(PyList(<<PyDict([from |-> PyStr(KnownSender), type |-> PyStr("image"),
                                    image |-> PyDict([id |-> PyStr("MEDIA_ID")])])>>)),
      WithMessages(PyList(<<PyDict([from |-> PyStr(KnownSender),
                                    text |-> PyDict([body |-> PyStr("hi")])])>>)),
      WithMessages(PyList(<<PyDict([type |-> PyStr("text"),
                                    text |-> PyDict([body |-> PyStr("hi")])])>>)),
      WithMessages(PyList(<<PyDict([from |-> PyStr(KnownSender), type |-> PyStr("text"),
                                    text |-> PyStr("hi")])>>)),
      WithMessages(PyList(<<PyDict([from |-> PyStr(KnownSender), type |-> PyStr("text"),
                                    text |-> PyDict([preview_url |-> PyStr("no")])])>>)),
      WithMessages(PyList(<<TextMessage(KnownSender, "")>>)) } \* empty text body

Payloads == TextPayloads \cup OtherPayloads

(***************************************************************************)
(* data_service: the users table (read-only to the pipeline) and the       *)
(* conversation_history table.  A row's timestamp is the store's clock at  *)
(* the insert; the clock never runs backwards and ticks between inserts.   *)
(***************************************************************************)
users == {[phone_number |-> KnownSender, pinecone_namespace |-> "test_namespace"]}

Row(id, phone, sender, message) ==
    [id |-> id, timestamp |-> id, user_phone_number |-> phone,
     sender |-> sender, message |-> message]

RECURSIVE OrderBy(_, _)
\* .order('timestamp', desc=...): the rows of S as a sequence
OrderBy(S, desc) ==
    IF S = {} THEN <<>>
    ELSE LET r == CHOOSE x \in S : \A y \in S :
                      IF desc THEN x.timestamp >= y.timestamp
                              ELSE x.timestamp <= y.timestamp
         IN  <<r>> \o OrderBy(S \ {r}, desc)

\* .eq('user_phone_number', phone)
EqPhone(tbl, phone) == {r \in tbl : r.user_phone_number = phone}

\* .limit(n)
Limit(seq, n) == SubSeq(seq, 1, IF Len(seq) < n THEN Len(seq) ELSE n)

\* list(reversed(seq))
Reversed(seq) == [i \in 1..Len(seq) |-> seq[Len(seq) + 1 - i]]

\* .select('sender, message')
Columns(seq) == [i \in 1..Len(seq) |-> [sender |-> seq[i].sender, message |-> seq[i].message]]

\* a slip: the except clause answers a default namespace instead of None
get_user_namespace_DefaultOnError(phone_number, store_ok) ==
    LET data == {u \in users : u.phone_number = phone_number}
    IN  IF ~store_ok THEN PyStr("default")
        ELSE IF data # {} THEN PyStr((CHOOSE u \in data : TRUE).pinecone_namespace)
        ELSE PyNone

\* get_user_namespace: the rows the select answers, or a store error
get_user_namespace(phone_number, store_ok) ==
    LET data == {u \in users : u.phone_number = phone_number}
    IN  IF ~store_ok THEN PyNone
        ELSE IF data # {} THEN PyStr((CHOOSE u \in data : TRUE).pinecone_namespace)
        ELSE PyNone

\* a slip: the rows returned as fetched, newest first, without reversed()
get_conversation_history_Unreversed(tbl, phone_number, limit, store_ok) ==
    IF ~store_ok THEN <<>>
    ELSE Columns(Limit(OrderBy(EqPhone(tbl, phone_number), TRUE), limit))

\* get_conversation_history: newest-first with a limit, reversed; [] on error
get_conversation_history(tbl, phone_number, limit, store_ok) ==
    IF ~store_ok THEN <<>>
    ELSE Reversed(Columns(Limit(OrderBy(EqPhone(tbl, phone_number), TRUE), limit)))

\* add_message_to_history, step 1: the insert
InsertRow(tbl, id, phone_number, sender, message) ==
    tbl \cup {Row(id, phone_number, sender, message)}

\* a slip: the rows ordered newest first, order('timestamp', desc=True)
SelectAll_NewestFirst(tbl, phone_number) == OrderBy(EqPhone(tbl, phone_number), TRUE)

\* step 2: all of the sender's rows, oldest first
SelectAll(tbl, phone_number) == OrderBy(EqPhone(tbl, phone_number), FALSE)

\* a slip: the slice taken from the wrong end, all_messages[-num_to_delete:]
IdsToDelete_FromNewest(all_messages) ==
    LET message_count == Len(all_messages)
        num_to_delete == message_count - HistoryLimit
    IN  IF message_count > HistoryLimit
        THEN {all_messages[i].id : i \in (message_count - num_to_delete + 1)..message_count}
        ELSE {}

\* step 3: the ids of the message_count - 20 oldest rows, none within the limit
IdsToDelete(all_messages) ==
    LET message_count == Len(all_messages)
        num_to_delete == message_count - HistoryLimit
    IN  IF message_count > HistoryLimit
        THEN {all_messages[i].id : i \in 1..num_to_delete}
        ELSE {}

\* .delete().in_('id', ids)
DeleteIn(tbl, ids) == {r \in tbl : r.id \notin ids}

\* The store call that fails in one add_message_to_history call, if any.
Faults == {"none", "insert", "select", "delete"}

\* add_message_to_history as a whole: the table it leaves.  The except
\* clause swallows the failure of any step; the steps before it have acted.
add_message_to_history(tbl, id, phone_number, sender, message, fault) ==
    LET inserted == InsertRow(tbl, id, phone_number, sender, message)
        ids      == IdsToDelete(SelectAll(inserted, phone_number))
    IN  IF fault = "insert" THEN tbl
        ELSE IF fault = "select" THEN inserted
        ELSE IF ids = {} \/ fault = "delete" THEN inserted
        ELSE DeleteIn(inserted, ids)

(***************************************************************************)
(* rag_service: embedding, then similarity search.                         *)
(***************************************************************************)
Vector == PyList(<<PyInt(4), PyInt(5), PyInt(6)>>)
Chunk == "Breakfast is served 7-10."

\* what bedrock-runtime invoke_model answers: an error, or the decoded body
BedrockReplies ==
    { Raise("ClientError"),
      PyDict([message |-> PyStr("throttled")]),
      PyDict([embedding |-> PyList(<<>>)]),
      PyDict([embedding |-> Vector]) }

\* get_bedrock_embedding: "except Exception" answers [] for any failure
get_bedrock_embedding(text, reply) ==
    LET embedding == SubscriptKey(reply, "embedding")
    IN  IF IsExc(reply) \/ IsExc(embedding) THEN PyList(<<>>) ELSE embedding

Match(metadata) == PyDict([id |-> PyStr("vec"), score |-> PyInt(1), metadata |-> metadata])

\* what pinecone_index.query answers
PineconeReplies ==
    { Raise("PineconeException"),
      PyDict([namespace |-> PyStr("test_namespace")]),
      PyDict([matches |-> PyList(<<>>)]),
      PyDict([matches |-> PyList(<<Match(PyDict([text |-> PyStr(Chunk)]))>>)]),
      PyDict([matches |-> PyList(<<Match(PyDict([source |-> PyStr("faq.pdf")])),
                                   Match(PyDict([text |-> PyStr(Chunk)]))>>)]),
      PyDict([matches |-> PyList(<<Match(PyNone), Match(PyDict([text |-> PyStr("")]))>>)]),
      PyDict([matches |-> PyList(<<Match(PyDict([text |-> PyInt(7)]))>>)]) }

\* one pass of the loop over the matches: the chunk appended, if any.  The
\* inner "except Exception" skips a match whose fields cannot be read.
ChunkOf(match) ==
    LET score        == DictGet(match, "score", PyInt(0))
        metadata     == DictGet(match, "metadata", PyDict(EmptyDict))
        text_content == DictGet(metadata, "text", PyStr(""))
    IN  IF IsExc(score) \/ IsExc(metadata) \/ IsExc(text_content) THEN <<>>
        ELSE IF Truthy(text_content) THEN <<text_content>>
        ELSE <<>>

RECURSIVE Contexts(_)
Contexts(items) ==
    IF items = <<>> THEN <<>> ELSE ChunkOf(Head(items)) \o Contexts(Tail(items))

\* what get_bedrock_embedding returned, as the log shows it
EmbeddingKind(embedding) == IF Truthy(embedding) THEN "vector" ELSE "empty"

\* does query_pinecone issue the similarity search?
SearchIssued(embed_reply) == Truthy(get_bedrock_embedding("", embed_reply))

\* query_pinecone: the list of context chunks; [] on any failure
query_pinecone(query_text, namespace, embed_reply, search_reply) ==
    LET query_embedding == get_bedrock_embedding(query_text, embed_reply)
        matches == SubscriptKey(search_reply, "matches")
    IN  IF ~Truthy(query_embedding) THEN <<>>
        ELSE IF IsExc(search_reply) \/ IsExc(matches) THEN <<>>
        ELSE IF matches.tag # "list" THEN <<>>
        ELSE Contexts(matches.items)

(***************************************************************************)
(* llm_service: the prompt, the backend call, the parse of its content.    *)
(***************************************************************************)
NoContext == "(No relevant information found)"
NoHistory == "(No previous conversation)"

\* "\n".join(context) raises TypeError unless every chunk is a str
JoinLines(context) ==
    IF \E i \in 1..Len(context) : context[i].tag # "str"
    THEN Raise("TypeError")
    ELSE PyList([i \in 1..Len(context) |-> context[i].s])

HistoryLine(msg) == <<IF msg.sender = "user" THEN "Guest" ELSE "Bot", msg.message>>

\* a slip: the loop runs over history[:-1], the last turn is left out
format_prompt_DropsLast(user_query, history, context) ==
    LET context_text == JoinLines(context)
    IN  IF Len(context) > 0 /\ IsExc(context_text) THEN context_text
        ELSE [tag |-> "prompt",
              context_section |-> IF Len(context) > 0 THEN context_text.items
                                  ELSE <<NoContext>>,
              history_section |-> IF Len(history) > 1
                                  THEN [i \in 1..(Len(history) - 1) |-> HistoryLine(history[i])]
                                  ELSE <<<<NoHistory>>>>,
              user_question   |-> user_query]

\* _format_prompt: the three sections of the user turn, or the exception raised
format_prompt(user_query, history, context) ==
    LET context_text == JoinLines(context)
    IN  IF Len(context) > 0 /\ IsExc(context_text) THEN context_text
        ELSE [tag |-> "prompt",
              context_section |-> IF Len(context) > 0 THEN context_text.items
                                  ELSE <<NoContext>>,
              history_section |-> IF Len(history) > 0
                                  THEN [i \in 1..Len(history) |-> HistoryLine(history[i])]
                                  ELSE <<<<NoHistory>>>>,
              user_question   |-> user_query]

\* Lexemes of a content string: punctuation, a "quoted" string, an
\* unterminated "quoted string, a number, a bare word.
P(c) == [k |-> "p", v |-> c]
Q(s) == [k |-> "q", v |-> s]
U(s) == [k |-> "u", v |-> s]
N(n) == [k |-> "n", n |-> n]
W(w) == [k |-> "w", v |-> w]
IsP(tok, c) == tok.k = "p" /\ tok.v = c
IsQ(tok, s) == tok.k = "q" /\ tok.v = s

\* a JSON scalar
JsonScalar(tok) ==
    CASE tok.k = "q" -> PyStr(tok.v)
      [] tok.k = "n" -> PyInt(tok.n)
      [] tok.k = "w" /\ tok.v = "null" -> PyNone
      [] OTHER -> Raise("JSONDecodeError")

RECURSIVE JsonMembers(_, _, _)
\* the members of an object from lexeme i on, added to the dict d
JsonMembers(toks, i, d) ==
    IF i + 3 > Len(toks) THEN Raise("JSONDecodeError")
    ELSE LET key == toks[i]
             val == JsonScalar(toks[i + 2])
             put == [x \in DOMAIN d \cup {key.v} |-> IF x = key.v THEN val ELSE d[x]]
         IN  IF key.k # "q" \/ ~IsP(toks[i + 1], ":") \/ IsExc(val)
             THEN Raise("JSONDecodeError")
             ELSE IF IsP(toks[i + 3], "}")
             THEN IF i + 3 = Len(toks) THEN PyDict(put) ELSE Raise("JSONDecodeError")
             ELSE IF IsP(toks[i + 3], ",") THEN JsonMembers(toks, i + 4, put)
             ELSE Raise("JSONDecodeError")

\* json.loads: a scalar, [], or an object of scalars; TypeError unless a str
json_loads(raw) ==
    IF raw.tag # "text" THEN Raise("TypeError")
    ELSE LET toks == raw.toks IN
         IF Len(toks) = 0 THEN Raise("JSONDecodeError")
         ELSE IF Len(toks) = 1 THEN JsonScalar(toks[1])
         ELSE IF Len(toks) = 2 /\ IsP(toks[1], "[") /\ IsP(toks[2], "]") THEN PyList(<<>>)
         ELSE IF Len(toks) = 2 /\ IsP(toks[1], "{") /\ IsP(toks[2], "}") THEN PyDict(EmptyDict)
         ELSE IF IsP(toks[1], "{") THEN JsonMembers(toks, 2, EmptyDict)
         ELSE Raise("JSONDecodeError")

\* '"message"' in raw_response
ContainsMessageKey(toks) == \E i \in 1..Len(toks) : IsQ(toks[i], "message")

\* re.search(r'"message"\s*:\s*"([^"]*)"', raw_response): group(1) of the
\* leftmost match, or None
SearchMessage(toks) ==
    LET hits == {i \in 1..(Len(toks) - 2) :
                    IsQ(toks[i], "message") /\ IsP(toks[i + 1], ":") /\ toks[i + 2].k = "q"}
    IN  IF hits = {} THEN PyNone
        ELSE PyStr(toks[(CHOOSE i \in hits : \A j \in hits : i <= j) + 2].v)

\* message[:150] and len(message) in the log line: a str or list only
Sliceable(v) == v.tag \in {"str", "text", "list"}

\* the try block after a 200 answer: the reply text, None, or the exception
ParseContent(response_data) ==
    LET choices  == SubscriptKey(response_data, "choices")
        choice0  == Subscript0(choices)
        msg      == SubscriptKey(choice0, "message")
        raw_response == SubscriptKey(msg, "content")
        parsed_response == json_loads(raw_response)
        message  == DictGet(parsed_response, "message", PyStr(""))
        fallback_message == SearchMessage(raw_response.toks)
    IN  IF IsExc(choices) THEN choices
        ELSE IF IsExc(choice0) THEN choice0
        ELSE IF IsExc(msg) THEN msg
        ELSE IF IsExc(raw_response) THEN raw_response
        ELSE IF IsExc(parsed_response)
        THEN IF parsed_response.type # "JSONDecodeError" THEN parsed_response
             ELSE IF ContainsMessageKey(raw_response.toks) /\ fallback_message # PyNone
             THEN fallback_message
             ELSE PyNone
        ELSE IF IsExc(message) THEN message
        ELSE IF ~Sliceable(message) THEN Raise("TypeError")
        ELSE IF ~Truthy(message) THEN PyNone
        ELSE message

\* get_llm_response: _format_prompt runs before the try; inside it a
\* RequestException, KeyError or IndexError answers None
get_llm_response(user_query, history, context, reply) ==
    LET prompt == format_prompt(user_query, history, context)
        r == ParseContent(reply.json)
    IN  IF IsExc(prompt) THEN prompt
        ELSE IF IsExc(reply) THEN PyNone
        ELSE IF reply.status_code >= 400 THEN PyNone
        ELSE IF IsExc(r) /\ r.type \in {"KeyError", "IndexError"} THEN PyNone
        ELSE r

\* requests.post calls one get_llm_response call makes: none if
\* _format_prompt raises, otherwise one
BackendCalls(user_query, history, context) ==
    IF IsExc(format_prompt(user_query, history, context)) THEN 0 ELSE 1

\* what requests.post to OpenRouter answers: a transport error or a response
Response(status_code, json) == [tag |-> "response", status_code |-> status_code, json |-> json]
Completion(content) ==
    PyDict([id |-> PyStr("gen-1"),
            choices |-> PyList(<<PyDict([message |->
                          PyDict([role |-> PyStr("assistant"), content |-> content])])>>)])
Member(key, val) == <<Q(key), P(":"), val>>
StructuredReply(message) ==
    PyText(<<P("{")>> \o Member("message", message) \o <<P(",")>>
           \o Member("confidence", Q("high")) \o <<P(",")>>
           \o Member("source", Q("context")) \o <<P(",")>>
           \o Member("detected_language", Q("en")) \o <<P("}")>>)

OpenRouterReplies ==
    { Raise("ConnectionError"),
      Response(500, PyDict([error |-> PyStr("overloaded")])),
      Response(200, PyDict([error |-> PyStr("no endpoints")])),
      Response(200, PyDict([choices |-> PyList(<<>>)])),
      Response(200, PyDict([choices |-> PyNone])),
      Response(200, Completion(PyNone)),
      Response(200, Completion(StructuredReply(Q("Yes")))),
      Response(200, Completion(StructuredReply(Q("")))),
      Response(200, Completion(StructuredReply(W("null")))),
      Response(200, Completion(StructuredReply(N(5)))),
      Response(200, Completion(PyText(<<P("{")>> \o Member("confidence", Q("low")) \o <<P("}")>>))),
      Response(200, Completion(PyText(<<W("null")>>))),
      Response(200, Completion(PyText(<<Q("Hello")>>))),
      Response(200, Completion(PyText(<<P("["), P("]")>>))),
      Response(200, Completion(PyText(<<W("not"), W("json"), W("but"), W("contains")>>
                                      \o Member("message", Q("Hello"))))),
      Response(200, Completion(PyText(<<W("Yes"), P(","), W("breakfast"), W("is"),
                                        W("included"), P(".")>>))),
      Response(200, Completion(PyText(<<P("{")>> \o Member("message", U("Yes, breakf"))))),
      Response(200, Completion(PyText(<<P("{")>> \o Member("message", Q("")) \o <<P(",")>>))) }

(***************************************************************************)
(* whatsapp_service.send_whatsapp_message: one POST; a RequestException    *)
(* (transport error, or raise_for_status on a non-2xx answer) is caught.   *)
(***************************************************************************)
WhatsAppReplies == {"200", "401", "ConnectionError"}
Delivered(reply) == reply = "200"

\* what the try block raises: requests.post a transport error,
\* raise_for_status an HTTPError on a 4xx or 5xx answer
SendTry(reply) ==
    IF reply = "ConnectionError" THEN Raise("ConnectionError")
    ELSE IF ~Delivered(reply) THEN Raise("HTTPError")
    ELSE PyNone

\* the subclasses of requests.exceptions.RequestException raised here
RequestExceptions == {"ConnectionError", "HTTPError"}

\* a slip: only the transport error is caught, a bad status propagates
send_whatsapp_message_StatusUncaught(recipient_phone, message_text, reply) ==
    LET r == SendTry(reply)
    IN  IF IsExc(r) /\ r.type = "ConnectionError" THEN PyNone ELSE r

\* send_whatsapp_message: one POST, no retry; "except RequestException"
\* logs the failure and the function returns None
send_whatsapp_message(recipient_phone, message_text, reply) ==
    LET r == SendTry(reply)
    IN  IF IsExc(r) /\ r.type \in RequestExceptions THEN PyNone ELSE r

ProfileApology == "Sorry, I can't seem to find your user profile. Please contact support."
ErrorApology == "I'm sorry, I encountered an error and can't respond right now."

(***************************************************************************)
(* The log of external calls of the request being handled.                 *)
(***************************************************************************)
Call(op, a, b, ok) == [op |-> op, a |-> a, b |-> b, ok |-> ok]

\* the store calls one add_message_to_history call issues, in order
AddCalls(tbl, id, phone_number, sender, message, fault) ==
    LET inserted == InsertRow(tbl, id, phone_number, sender, message)
        ids      == IdsToDelete(SelectAll(inserted, phone_number))
    IN  <<Call("insert", sender, message, fault # "insert")>>
        \o (IF fault = "insert" THEN <<>>
            ELSE <<Call("select_all", phone_number, "", fault # "select")>>)
        \o (IF fault \in {"insert", "select"} \/ ids = {} THEN <<>>
            ELSE <<Call("delete", phone_number, "", fault # "delete")>>)

\* the faults that can happen in this call: a delete fails only if issued
FaultsOf(tbl, id, phone_number, sender, message) ==
    {f \in Faults : f = "delete" =>
        IdsToDelete(SelectAll(InsertRow(tbl, id, phone_number, sender, message),
                              phone_number)) # {}}

(***************************************************************************)
(* app.handle_message, one action per numbered step of the handler.        *)
(***************************************************************************)
VARIABLES
    table,          \* conversation_history
    clock,          \* the store's clock: the timestamp of the next insert
    requests,       \* POST /whatsapp requests received so far
    pc,             \* the handler's position
    payload,        \* request.get_json()
    sender_phone, user_query, namespace, history, context, bot_response,
    calls,          \* external calls of the current request, in order
    response,       \* what the handler returned
    llm,            \* a get_llm_response call made on its own: arguments and outcome
    verify,         \* a GET /whatsapp request: its query parameters and the answer
    adders          \* add_message_to_history calls in flight in concurrent workers

\* the locals and the answer of the POST /whatsapp request being handled
request_vars == <<requests, pc, payload, sender_phone, user_query,
                  namespace, history, context, bot_response, calls, response>>
vars == <<table, clock, request_vars, llm, verify, adders>>

NoResponse == [status |-> 0, body |-> ""]
Ok200 == [status |-> 200, body |-> "OK"]
\* Flask answers an exception that leaves the view function with a 500
InternalServerError == [status |-> 500, body |-> "Internal Server Error"]

PrefillTexts == <<"Hi", "Hello!", "Where is the key?">>
\* n rows of the known sender between two rows of the unknown one
Prefill(n) ==
    {Row(1, UnknownSender, "user", "Hi"), Row(n + 2, UnknownSender, "user", "Hello?")}
    \cup {Row(i + 1, KnownSender, IF i % 2 = 1 THEN "user" ELSE "bot",
              PrefillTexts[(i % 3) + 1]) : i \in 1..n}

\* no get_llm_response call, GET request or concurrent append under way
NotCalled == [pc |-> "idle"]
NoRequest == [pc |-> "idle"]
NoAdders == <<>>

\* the store as the service finds it at start-up
StoreInit(sizes) ==
    \E n \in sizes :
        /\ table = Prefill(n)
        /\ clock = n + 3

\* no POST /whatsapp request received yet
HandlerIdle ==
    /\ requests = 0
    /\ pc = "idle"
    /\ payload = PyNone
    /\ sender_phone = PyNone
    /\ user_query = PyNone
    /\ namespace = PyNone
    /\ history = <<>>
    /\ context = <<>>
    /\ bot_response = PyNone
    /\ calls = <<>>
    /\ response = NoResponse

Init ==
    /\ StoreInit({0, MaxPrefill - 1, MaxPrefill})
    /\ HandlerIdle
    /\ llm = NotCalled
    /\ verify = NoRequest
    /\ adders = NoAdders

\* a slip: step 1 left out, the handler goes straight to the lookup
AfterParse_SkipAppend(sender, query) ==
    IF ~Truthy(sender) \/ ~Truthy(query) THEN "done" ELSE "lookup"

\* "if not sender_phone or not user_query: return": where the handler goes
AfterParse(sender, query) ==
    IF ~Truthy(sender) \/ ~Truthy(query) THEN "done" ELSE "add_user"

\* a slip: the unknown sender is answered with the generic apology
AfterLookup_GenericApology(ns) == IF ~Truthy(ns) THEN "send_error" ELSE "fetch"

\* "if not namespace"
AfterLookup(ns) == IF ~Truthy(ns) THEN "unknown_user" ELSE "fetch"

\* a slip: the reply is stored but never sent
AfterGenerate_SkipSend(reply) == IF Truthy(reply) THEN "add_bot" ELSE "send_error"

\* "if bot_response"
AfterGenerate(reply) == IF Truthy(reply) THEN "send_reply" ELSE "send_error"

\* a slip: the handler returns after sending, step 7 left out
AfterSendReply_NoAppend == "done"

\* after the reply is sent: step 7, the bot turn is appended
AfterSendReply == "add_bot"

\* POST /whatsapp arrives: get_json, parse_whatsapp_message, the early return
Receive ==
    /\ pc \in {"idle", "done"}
    /\ requests < MaxRequests
    /\ \E p \in Payloads :
          LET r == parse_whatsapp_message(p) IN
          /\ payload' = p
          /\ IF IsExc(r)
             THEN /\ sender_phone' = PyNone
                  /\ user_query' = PyNone
                  /\ pc' = "done"
                  /\ response' = InternalServerError
             ELSE /\ sender_phone' = r.fst
                  /\ user_query' = r.snd
                  /\ pc' = AfterParse(r.fst, r.snd)
                  /\ response' = IF AfterParse(r.fst, r.snd) = "done" THEN Ok200 ELSE NoResponse
    /\ requests' = requests + 1
    /\ namespace' = PyNone
    /\ history' = <<>>
    /\ context' = <<>>
    /\ bot_response' = PyNone
    /\ calls' = <<>>
    /\ UNCHANGED <<table, clock, llm, verify, adders>>

\* add_message_to_history from the handler: table, clock and log
AppendTurn(sender, message, next) ==
    \E fault \in FaultsOf(table, clock, sender_phone.s, sender, message) :
        /\ table' = add_message_to_history(table, clock, sender_phone.s, sender, message, fault)
        /\ clock' = IF fault = "insert" THEN clock ELSE clock + 1
        /\ calls' = calls \o AddCalls(table, clock, sender_phone.s, sender, message, fault)
        /\ pc' = next

\* 1. Add user message to history
AddUserMessage ==
    /\ pc = "add_user"
    /\ AppendTurn("user", user_query.s, "lookup")
    /\ UNCHANGED <<requests, payload, sender_phone, user_query, namespace, history,
                   context, bot_response, response, llm, verify, adders>>

\* 2. Get user's Pinecone namespace
LookupNamespace ==
    /\ pc = "lookup"
    /\ \E store_ok \in BOOLEAN :
          LET ns == get_user_namespace(sender_phone.s, store_ok) IN
          /\ namespace' = ns
          /\ calls' = Append(calls, Call("lookup", sender_phone.s, "", store_ok))
          /\ pc' = AfterLookup(ns)
    /\ UNCHANGED <<table, clock, requests, payload, sender_phone, user_query, history,
                   context, bot_response, response, llm, verify, adders>>

\* wa.send_whatsapp_message(sender_phone, text), then "return OK, 200" or on
Send(text, next, resp) ==
    \E reply \in WhatsAppReplies :
        LET r == send_whatsapp_message(sender_phone.s, text, reply) IN
        /\ calls' = Append(calls, Call("send", sender_phone.s, text, Delivered(reply)))
        /\ pc' = IF IsExc(r) THEN "done" ELSE next
        /\ response' = IF IsExc(r) THEN InternalServerError ELSE resp

\* "if not namespace": the apology, and the handler returns
SendProfileApology ==
    /\ pc = "unknown_user"
    /\ Send(ProfileApology, "done", Ok200)
    /\ UNCHANGED <<table, clock, requests, payload, sender_phone, user_query, namespace,
                   history, context, bot_response, llm, verify, adders>>

\* 3. Get conversation history
FetchHistory ==
    /\ pc = "fetch"
    /\ \E store_ok \in BOOLEAN :
          /\ history' = get_conversation_history(table, sender_phone.s, DefaultLimit, store_ok)
          /\ calls' = Append(calls, Call("fetch", sender_phone.s, "", store_ok))
    /\ pc' = "retrieve"
    /\ UNCHANGED <<table, clock, requests, payload, sender_phone, user_query, namespace,
                   context, bot_response, response, llm, verify, adders>>

\* 4. Query Pinecone for context
QueryPinecone ==
    /\ pc = "retrieve"
    /\ \E e \in BedrockReplies, q \in PineconeReplies :
          /\ context' = query_pinecone(user_query.s, namespace.s, e, q)
          /\ calls' = calls \o <<Call("embed", user_query.s,
                                       EmbeddingKind(get_bedrock_embedding(user_query.s, e)),
                                       ~IsExc(e))>>
                      \o (IF SearchIssued(e)
                          THEN <<Call("search", namespace.s, "", ~IsExc(q))>> ELSE <<>>)
    /\ pc' = "generate"
    /\ UNCHANGED <<table, clock, requests, payload, sender_phone, user_query, namespace,
                   history, bot_response, response, llm, verify, adders>>

\* 5. Get response from LLM.  No call is made if _format_prompt raises.
GetLlmResponse ==
    /\ pc = "generate"
    /\ \E reply \in OpenRouterReplies :
          LET r == get_llm_response(user_query.s, history, context, reply) IN
          /\ calls' = IF IsExc(format_prompt(user_query.s, history, context)) THEN calls
                      ELSE Append(calls, Call("generate", user_query.s, "", ~IsExc(reply)))
          /\ IF IsExc(r)
             THEN /\ bot_response' = PyNone
                  /\ pc' = "done"
                  /\ response' = InternalServerError
             ELSE /\ bot_response' = r
                  /\ pc' = AfterGenerate(r)
                  /\ response' = response
    /\ UNCHANGED <<table, clock, requests, payload, sender_phone, user_query, namespace,
                   history, context, llm, verify, adders>>

\* 6. Send response to user
SendReply ==
    /\ pc = "send_reply"
    /\ Send(bot_response.s, AfterSendReply, IF AfterSendReply = "done" THEN Ok200 ELSE NoResponse)
    /\ UNCHANGED <<table, clock, requests, payload, sender_phone, user_query, namespace,
                   history, context, bot_response, llm, verify, adders>>

\* 7. Add bot response to history, and the handler returns
AddBotMessage ==
    /\ pc = "add_bot"
    /\ AppendTurn("bot", bot_response.s, "done")
    /\ response' = Ok200
    /\ UNCHANGED <<requests, payload, sender_phone, user_query, namespace, history,
                   context, bot_response, llm, verify, adders>>

\* else: the generic apology, and the handler returns
SendErrorApology ==
    /\ pc = "send_error"
    /\ Send(ErrorApology, "done", Ok200)
    /\ UNCHANGED <<table, clock, requests, payload, sender_phone, user_query, namespace,
                   history, context, bot_response, llm, verify, adders>>

Next ==
    \/ Receive
    \/ AddUserMessage
    \/ LookupNamespace
    \/ SendProfileApology
    \/ FetchHistory
    \/ QueryPinecone
    \/ GetLlmResponse
    \/ SendReply
    \/ AddBotMessage
    \/ SendErrorApology

Spec == Init /\ [][Next]_vars

(***************************************************************************)
(* llm_service.get_llm_response called on its own, as its tests call it:   *)
(* the arguments are drawn first, then the backend answers.                *)
(***************************************************************************)
Turn(sender, message) == [sender |-> sender, message |-> message]
LlmHistories ==
    { <<>>,
      <<Turn("user", "Hi")>>,
      <<Turn("user", "Hi"), Turn("bot", "Hello!")>> }
\* contexts query_pinecone can return: none, a chunk, a chunk that is no str
LlmContexts == { <<>>, <<PyStr(Chunk)>>, <<PyInt(7)>> }

InitLlm ==
    /\ StoreInit({0})
    /\ HandlerIdle
    /\ \E q \in Queries, h \in LlmHistories, c \in LlmContexts :
          llm = [pc |-> "called", user_query |-> q, history |-> h, context |-> c]
    /\ verify = NoRequest
    /\ adders = NoAdders

\* get_llm_response(user_query, history, context) runs to its end
CallGetLlmResponse ==
    /\ llm.pc = "called"
    /\ \E reply \in OpenRouterReplies :
          llm' = [pc |-> "returned",
                  user_query |-> llm.user_query,
                  history |-> llm.history,
                  context |-> llm.context,
                  reply |-> reply,
                  posts |-> BackendCalls(llm.user_query, llm.history, llm.context),
                  returned |-> get_llm_response(llm.user_query, llm.history,
                                                llm.context, reply)]
    /\ UNCHANGED <<table, clock, request_vars, verify, adders>>

NextLlm == CallGetLlmResponse

SpecLlm == InitLlm /\ [][NextLlm]_vars

(***************************************************************************)
(* app.verify_webhook: GET /whatsapp, the verification handshake.          *)
(***************************************************************************)
\* config.WHATSAPP_VERIFY_TOKEN, the configured verify secret
WHATSAPP_VERIFY_TOKEN == "verify-secret"

HubParams == {"hub.mode", "hub.verify_token", "hub.challenge"}
HubValues == {"subscribe", WHATSAPP_VERIFY_TOKEN, "1158201444", ""}
\* request.args: any of the three parameters present or absent
QueryStrings == UNION {[present -> HubValues] : present \in SUBSET HubParams}

\* request.args.get(key): None for an absent parameter
ArgsGet(args, key) == IF key \in DOMAIN args THEN PyStr(args[key]) ELSE PyNone

Forbidden403 == [status |-> 403, body |-> "Forbidden"]

\* what Flask answers for the (body, status) the view returns: a view that
\* returns None as the body raises TypeError, answered with a 500
ViewResponse(body, status) ==
    IF body = PyNone THEN InternalServerError ELSE [status |-> status, body |-> body.s]

\* verify_webhook: the challenge with 200, or "Forbidden" with 403
verify_webhook(args) ==
    LET mode      == ArgsGet(args, "hub.mode")
        token     == ArgsGet(args, "hub.verify_token")
        challenge == ArgsGet(args, "hub.challenge")
    IN  IF EqStr(mode, "subscribe") /\ token = PyStr(WHATSAPP_VERIFY_TOKEN)
        THEN ViewResponse(challenge, 200)
        ELSE Forbidden403

InitVerify ==
    /\ StoreInit({0})
    /\ HandlerIdle
    /\ llm = NotCalled
    /\ \E args \in QueryStrings : verify = [pc |-> "received", args |-> args]
    /\ adders = NoAdders

\* GET /whatsapp is answered
VerifyWebhook ==
    /\ verify.pc = "received"
    /\ verify' = [pc |-> "answered", args |-> verify.args,
                  response |-> verify_webhook(verify.args)]
    /\ UNCHANGED <<table, clock, request_vars, llm, adders>>

NextVerify == VerifyWebhook

SpecVerify == InitVerify /\ [][NextVerify]_vars

(***************************************************************************)
(* data_service.add_message_to_history called by concurrent workers: the   *)
(* three store operations of one call are separate requests to the store,  *)
(* and the calls of different workers interleave between them.             *)
(***************************************************************************)
Workers == 1..MaxWorkers

\* a worker that has not called yet
Waiting == [pc |-> "idle", phone |-> "", id |-> 0, count |-> 0, ids |-> {}, failed |-> FALSE]

InitAdds ==
    /\ StoreInit({MaxPrefill - 1, MaxPrefill})
    /\ HandlerIdle
    /\ llm = NotCalled
    /\ verify = NoRequest
    /\ adders = [w \in Workers |-> Waiting]

\* "except Exception": the call ends, the steps before the failure have acted
Failed(w) == [adders EXCEPT ![w].pc = "done", ![w].failed = TRUE]

\* add_message_to_history(db_client, phone_number, 'user', message) is called
AdderCall(w) ==
    /\ adders[w].pc = "idle"
    /\ \E phone \in Senders :
          adders' = [adders EXCEPT ![w].pc = "insert", ![w].phone = phone]
    /\ UNCHANGED <<table, clock, request_vars, llm, verify>>

\* 1. Insert the new message
AdderInsert(w) ==
    /\ adders[w].pc = "insert"
    /\ \/ /\ \E q \in Queries :
                table' = InsertRow(table, clock, adders[w].phone, "user", q)
          /\ clock' = clock + 1
          /\ adders' = [adders EXCEPT ![w].pc = "select", ![w].id = clock]
       \/ /\ adders' = Failed(w)
          /\ UNCHANGED <<table, clock>>
    /\ UNCHANGED <<request_vars, llm, verify>>

\* 2. Get all messages for the user; "if message_count > 20" the ids of the
\* oldest ones are kept for step 3
AdderSelect(w) ==
    /\ adders[w].pc = "select"
    /\ \/ LET all_messages  == SelectAll(table, adders[w].phone)
              ids_to_delete == IdsToDelete(all_messages)
          IN  adders' = [adders EXCEPT
                            ![w].pc = IF ids_to_delete = {} THEN "done" ELSE "delete",
                            ![w].count = Len(all_messages),
                            ![w].ids = ids_to_delete]
       \/ adders' = Failed(w)
    /\ UNCHANGED <<table, clock, request_vars, llm, verify>>

\* 3. delete().in_('id', ids_to_delete)
AdderDelete(w) ==
    /\ adders[w].pc = "delete"
    /\ \/ /\ table' = DeleteIn(table, adders[w].ids)
          /\ adders' = [adders EXCEPT ![w].pc = "done"]
       \/ /\ adders' = Failed(w)
          /\ UNCHANGED table
    /\ UNCHANGED <<clock, request_vars, llm, verify>>

NextAdds ==
    \E w \in Workers :
        \/ AdderCall(w)
        \/ AdderInsert(w)
        \/ AdderSelect(w)
        \/ AdderDelete(w)

SpecAdds == InitAdds /\ [][NextAdds]_vars

(***************************************************************************)
(* Vocabulary of the properties.                                           *)
(***************************************************************************)
\* the handler has returned (or an exception has left it)
Finished == pc = "done"
\* the request carried a message the handler processes
Parsed == Truthy(sender_phone) /\ Truthy(user_query)
CallIdx(op) == {i \in 1..Len(calls) : calls[i].op = op}
InsertIdx(role) == {i \in CallIdx("insert") : calls[i].a = role}
StoreOps == {"insert", "select_all", "delete", "lookup", "fetch"}
StoreCallsOk == \A i \in 1..Len(calls) : calls[i].op \in StoreOps => calls[i].ok
HasNamespaceRow(phone) == \E u \in users : u.phone_number = phone
RowsOf(tbl, phone) == {r \in tbl : r.user_phone_number = phone}
\* the rows of S oldest first
Chronological(S) ==
    LET older == [r \in S |-> Cardinality({o \in S : o.timestamp < r.timestamp})]
    IN  [i \in 1..Cardinality(S) |-> CHOOSE r \in S : older[r] = i - 1]
\* the n last entries of a sequence
Newest(seq, n) == SubSeq(seq, Len(seq) - n + 1, Len(seq))
Min(a, b) == IF a < b THEN a ELSE b
Turns(seq) == [i \in 1..Len(seq) |-> [sender |-> seq[i].sender, message |-> seq[i].message]]
\* the calls the step being taken adds to the log
AddedCalls == SubSeq(calls', Len(calls) + 1, Len(calls'))
AllOk(cs) == \A i \in 1..Len(cs) : cs[i].ok

\* C1 (as claimed): every POST /whatsapp request ends with status 200 and
\* body "OK", whatever the payload and whatever the external calls answer.
C1_AlwaysAcknowledged == Finished => response = Ok200

\* C2: an add_message_to_history call whose store operations all succeed
\* inserts exactly one row (the newest) and leaves the sender the newest
\* min(n, 20) of its n rows in their original order, deleting exactly the
\* n - 20 oldest if n > 20; rows of other senders are untouched.
C2_AppendTrimsToNewest20 ==
    [][ (pc \in {"add_user", "add_bot"} /\ pc' # pc /\ AllOk(AddedCalls)) =>
          LET phone == sender_phone.s
              role  == IF pc = "add_user" THEN "user" ELSE "bot"
              text  == IF pc = "add_user" THEN user_query.s ELSE bot_response.s
              added == table' \ table
              all   == RowsOf(table, phone) \cup added
              n     == Cardinality(all)
              kept  == RowsOf(table', phone)
          IN  /\ Cardinality(added) = 1
              /\ \A r \in added :
                    /\ r.user_phone_number = phone /\ r.sender = role /\ r.message = text
                    /\ \A o \in table : o.timestamp < r.timestamp
              \* the rows kept are rows of `all`, unchanged (so in their
              \* original timestamp order), and they are the newest min(n, 20)
              /\ kept \subseteq all
              /\ Cardinality(kept) = Min(n, 20)
              /\ \A k \in kept : \A d \in all \ kept : d.timestamp < k.timestamp
              /\ Cardinality(table \ table') = IF n > 20 THEN n - 20 ELSE 0
              /\ table \ RowsOf(table, phone) = table' \ kept
      ]_vars

\* C2 witness: an append has just trimmed the sender's rows down to 20
C2_Witness ==
    /\ pc = "lookup"
    /\ Len(calls) = 3 /\ calls[3].op = "delete" /\ AllOk(calls)
    /\ Cardinality(RowsOf(table, sender_phone.s)) = 20

\* what C3 says get_conversation_history returns for the sender's rows
RecentTurns(tbl, phone) ==
    LET rows == Chronological(RowsOf(tbl, phone))
    IN  Turns(Newest(rows, Min(Len(rows), 20)))

\* C3 (as claimed): get_conversation_history returns the min(n, 20) most
\* recent rows of the sender oldest-first, whatever the store call does.
C3_FetchReturnsRecent ==
    [][ (pc = "fetch" /\ pc' = "retrieve") =>
            history' = RecentTurns(table, sender_phone.s) ]_vars

\* C3 (amended): when the store query succeeds, get_conversation_history
\* returns the min(n, 20) most recent rows of the sender oldest-first (the
\* empty sequence for a sender without rows); right after an append whose
\* store operations succeeded and that trimmed, these are exactly 20 turns
\* and the sender holds exactly 20 rows.
C3_FetchReturnsRecentIfStoreOk ==
    [][ (pc = "fetch" /\ pc' = "retrieve" /\ AllOk(AddedCalls)) =>
          LET phone == sender_phone.s IN
          /\ history' = RecentTurns(table, phone)
          /\ RowsOf(table, phone) = {} => history' = <<>>
          /\ (Len(calls) = 4 /\ calls[3].op = "delete" /\ AllOk(SubSeq(calls, 1, 3))) =>
                /\ Len(history') = 20
                /\ Cardinality(RowsOf(table, phone)) = 20
                /\ history'[20] = [sender |-> "user", message |-> user_query.s]
      ]_vars

\* C3 witness: a fetch right after a trimming append returned 20 turns
C3_Witness ==
    /\ pc = "retrieve"
    /\ Len(calls) = 5 /\ calls[3].op = "delete" /\ AllOk(calls)
    /\ Len(history) = 20

\* reading a payload without raising: a missing step reads as None
Field(v, k) == IF v.tag = "dict" /\ k \in DOMAIN v.d THEN v.d[k] ELSE PyNone
First(v) == IF v.tag = "list" /\ Len(v.items) > 0 THEN v.items[1] ELSE PyNone
\* the payload holds a first message whose type is "text"
HasTextTypeFirstMessage(p) ==
    LET value == Field(First(Field(First(Field(p, "entry")), "changes")), "value")
    IN  EqStr(Field(First(Field(value, "messages")), "type"), "text")

\* C4 (as claimed): for a payload without a text-type first message,
\* parse_whatsapp_message returns (None, None) and the handler acknowledges
\* without a store, search, generation or delivery call.
C4_NonTextIsDropped ==
    (Finished /\ ~HasTextTypeFirstMessage(payload)) =>
        /\ parse_whatsapp_message(payload) = NotAMessage
        /\ calls = <<>>
        /\ response = Ok200

\* the handled message comes from a sender without a users row
FromUnknownSender == Parsed /\ ~HasNamespaceRow(sender_phone.s)
NoRetrievalOrGeneration ==
    /\ CallIdx("fetch") \cup CallIdx("embed") \cup CallIdx("search")
           \cup CallIdx("generate") = {}
    /\ InsertIdx("bot") = {}
ProfileApologySent ==
    /\ Cardinality(CallIdx("send")) = 1
    /\ \A i \in CallIdx("send") :
          calls[i].a = sender_phone.s /\ calls[i].b = ProfileApology
\* the newest row of the store is the inbound user message
UserMessageRecorded ==
    \E r \in table :
        /\ r.id = clock - 1
        /\ r.user_phone_number = sender_phone.s
        /\ r.sender = "user"
        /\ r.message = user_query.s

\* C5 (as claimed): for a sender without a namespace row the pipeline
\* sends the profile apology, makes no fetch, embedding, search or
\* generation call, appends no bot row, and has recorded the user message.
C5_UnknownSenderRecorded ==
    (Finished /\ FromUnknownSender) =>
        ProfileApologySent /\ NoRetrievalOrGeneration /\ UserMessageRecorded

\* C5 (amended): for a sender without a namespace row the pipeline sends
\* the profile apology, makes no fetch, embedding, search or generation
\* call, appends no bot row, and has issued the append of the user message
\* first; the message is in history whenever that insert succeeded.
C5_UnknownSenderApology ==
    /\ FromUnknownSender => NoRetrievalOrGeneration
    /\ (Finished /\ FromUnknownSender) =>
          /\ ProfileApologySent
          /\ calls[1].op = "insert" /\ calls[1].a = "user" /\ calls[1].b = user_query.s
          /\ calls[1].ok => UserMessageRecorded

\* C5 witness: an unknown sender was answered and the message is stored
C5_Witness ==
    Finished /\ FromUnknownSender /\ calls[1].ok /\ UserMessageRecorded
        /\ response = Ok200

\* C6 (as claimed): every handling of a parsed text message makes exactly
\* one delivery call to the sender, carrying the generated reply or one of
\* the two fixed apologies.
C6_ExactlyOneDelivery ==
    (Finished /\ Parsed) =>
        /\ Cardinality(CallIdx("send")) = 1
        /\ \A i \in CallIdx("send") :
              /\ calls[i].a = sender_phone.s
              /\ \/ calls[i].b \in {ProfileApology, ErrorApology}
                 \/ Truthy(bot_response) /\ calls[i].b = bot_response.s

\* C7 (as claimed): when the generation call yields no usable message the
\* generic apology is sent and no bot row is appended; a bot row is
\* appended only with the text of an obtained reply.
C7_GenerationFailureApology ==
    /\ (Finished /\ Parsed /\ CallIdx("generate") # {} /\ ~Truthy(bot_response)) =>
          /\ \E i \in CallIdx("send") :
                calls[i].a = sender_phone.s /\ calls[i].b = ErrorApology
          /\ InsertIdx("bot") = {}
    /\ \A i \in InsertIdx("bot") : Truthy(bot_response) /\ calls[i].b = bot_response.s

\* the handler ran to its end with a namespace, a reply and a working store
SuccessPath ==
    Finished /\ Parsed /\ Truthy(namespace) /\ Truthy(bot_response) /\ StoreCallsOk

\* C8: on the success path there is exactly one delivery call, to the
\* sender with the generated reply, and exactly two appends: the user row
\* first, the bot row second, the sender's two newest rows in that order.
C8_SuccessPathEffects ==
    SuccessPath =>
        /\ Cardinality(CallIdx("send")) = 1
        /\ \A i \in CallIdx("send") :
              calls[i].a = sender_phone.s /\ calls[i].b = bot_response.s
        /\ Cardinality(CallIdx("insert")) = 2
        /\ Cardinality(InsertIdx("user")) = 1 /\ Cardinality(InsertIdx("bot")) = 1
        /\ \A i \in InsertIdx("user"), j \in InsertIdx("bot") :
              i < j /\ calls[i].b = user_query.s /\ calls[j].b = bot_response.s
        /\ LET rows == Chronological(RowsOf(table, sender_phone.s))
           IN  /\ Len(rows) >= 2
               /\ Turns(Newest(rows, 2)) = <<[sender |-> "user", message |-> user_query.s],
                                             [sender |-> "bot", message |-> bot_response.s]>>
               /\ rows[Len(rows)].id = clock - 1 /\ rows[Len(rows) - 1].id = clock - 2
        /\ response = Ok200

\* C8 witness: a success path that ended with the sender at the limit
C8_Witness ==
    SuccessPath /\ Cardinality(RowsOf(table, sender_phone.s)) = 20 /\ response = Ok200

\* C9: for every parsed message the first external call is the append of
\* the user message, so it precedes the namespace lookup and is issued on
\* every path, whatever the later steps do.
C9_UserAppendFirst ==
    /\ (Parsed /\ pc # "add_user") =>
          /\ Len(calls) >= 1
          /\ calls[1].op = "insert" /\ calls[1].a = "user" /\ calls[1].b = user_query.s
    /\ \A i \in CallIdx("lookup") : \E j \in InsertIdx("user") : j < i

\* C9 witness: the generation-failure path, user append issued first
C9_Witness ==
    /\ Finished /\ Parsed /\ calls[1].op = "insert"
    /\ \E i \in CallIdx("send") : calls[i].b = ErrorApology

\* a reply was obtained and the handler ran to its end
ReplyPath == Finished /\ Parsed /\ Truthy(bot_response)
Precedes(op1, op2) ==
    /\ CallIdx(op1) # {} /\ CallIdx(op2) # {}
    /\ \A i \in CallIdx(op1), j \in CallIdx(op2) : i < j
\* the handler's own calls, without the store calls inside an append and
\* the search inside query_pinecone
StepOps ==
    LET steps == SelectSeq(calls, LAMBDA c : c.op \notin {"select_all", "delete", "search"})
    IN  [i \in 1..Len(steps) |-> steps[i].op]

\* C10 (as claimed): on the success path the order is lookup, fetch,
\* retrieval, generation, delivery, then the appends of both turns: no
\* append is issued before the delivery call.
C10_AppendsAfterDelivery ==
    ReplyPath =>
        /\ Precedes("lookup", "fetch") /\ Precedes("fetch", "embed")
        /\ Precedes("embed", "generate") /\ Precedes("generate", "send")
        /\ Precedes("send", "insert")

\* C10 (amended): on the success path the order is append of the user
\* turn, lookup, fetch, retrieval, generation, delivery, append of the bot
\* turn: only the bot turn's append follows the delivery call.
C10_UserAppendThenPipeline ==
    ReplyPath =>
        /\ StepOps = <<"insert", "lookup", "fetch", "embed", "generate", "send", "insert">>
        /\ calls[1].a = "user"
        /\ \A i \in InsertIdx("bot"), j \in CallIdx("send") : j < i
        /\ \A i \in CallIdx("search") :
              (\E j \in CallIdx("embed") : j < i) /\ (\E j \in CallIdx("generate") : i < j)

\* C10 witness: a finished success path that searched for context
C10_Witness == ReplyPath /\ CallIdx("search") # {} /\ InsertIdx("bot") # {}

\* a delivery call that failed: a transport error or a 4xx/5xx answer
FailedSends == {i \in CallIdx("send") : ~calls[i].ok}

\* C11: a failed delivery call is the only attempt (no retry) and does not
\* raise: the handler goes on, on the reply path the bot turn's append is
\* still issued after it, and the request ends with 200 "OK".
C11_DeliveryFailureSwallowed ==
    /\ Cardinality(CallIdx("send")) <= 1
    /\ \A i \in FailedSends :
          /\ response # InternalServerError
          /\ ~Finished => (pc = "add_bot" /\ calls[i].b = bot_response.s)
          /\ Finished =>
                /\ response = Ok200
                /\ calls[i].b \notin {ProfileApology, ErrorApology} =>
                      \E j \in InsertIdx("bot") : i < j /\ calls[j].b = bot_response.s

\* C11 witness: the reply's delivery failed, the bot turn was appended and
\* stored, and the request was acknowledged
C11_Witness ==
    /\ Finished /\ response = Ok200 /\ Truthy(bot_response)
    /\ \E i \in FailedSends : \E j \in InsertIdx("bot") : i < j /\ calls[j].ok
    /\ \E r \in table : r.sender = "bot" /\ r.id = clock - 1 /\ r.message = bot_response.s

\* a retrieval failure: the embedding call or the search call raised, or the
\* embedding came back empty
EmptyEmbedding == \E i \in CallIdx("embed") : calls[i].b = "empty"
RetrievalFailed ==
    \/ EmptyEmbedding
    \/ \E i \in CallIdx("embed") \cup CallIdx("search") : ~calls[i].ok

\* the part of C12 about query_pinecone alone: an empty embedding means no
\* search call, and any retrieval failure means an empty context
RetrievalDegradesToEmpty ==
    /\ EmptyEmbedding => CallIdx("search") = {}
    /\ RetrievalFailed => context = <<>>

\* C12 (as claimed): on an empty embedding no search call is issued and the
\* context is empty; after any retrieval failure the generation call is
\* still made and a reply or an apology is still delivered.
C12_RetrievalFailureContinues ==
    /\ RetrievalDegradesToEmpty
    /\ (Finished /\ RetrievalFailed) =>
          /\ CallIdx("generate") # {}
          /\ \E i \in CallIdx("send") :
                \/ calls[i].b = ErrorApology
                \/ Truthy(bot_response) /\ calls[i].b = bot_response.s

\* the get_llm_response call has returned (or raised)
LlmReturned == llm.pc = "returned"
\* the backend answered with a 2xx status
Answered2xx(reply) == ~IsExc(reply) /\ reply.status_code \in 200..299
\* the first choice's content of an answer, None if there is none
ContentOf(reply) == Field(Field(First(Field(reply.json, "choices")), "message"), "content")
HasTextContent(reply) == Answered2xx(reply) /\ ContentOf(reply).tag = "text"

\* what C13 says get_llm_response returns for a 2xx answer with a content
\* string: the message field of parsed JSON, else the salvaged text, and
\* the failure outcome None when that is absent or empty
ClaimedReply(content) ==
    LET parsed  == json_loads(content)
        message == Field(parsed, "message")
        salvage == SearchMessage(content.toks)
    IN  IF ~IsExc(parsed)
        THEN IF Truthy(message) THEN message ELSE PyNone
        ELSE IF Truthy(salvage) THEN salvage ELSE PyNone

\* C13 (as claimed): get_llm_response returns None on a transport error or
\* a non-2xx status; for a content string it returns the message field of
\* the parsed JSON or else the salvaged text, and None when salvage fails
\* or the message is empty or absent; it never returns the empty string.
C13_ReplyIsMessageOrFailure ==
    (LlmReturned /\ llm.posts = 1) =>
        /\ ~Answered2xx(llm.reply) => llm.returned = PyNone
        /\ HasTextContent(llm.reply) =>
              llm.returned = ClaimedReply(ContentOf(llm.reply))
        /\ llm.returned # PyStr("")

\* the content is plain text: not JSON and without a "message" key
PlainText(content) ==
    /\ content.tag = "text"
    /\ IsExc(json_loads(content))
    /\ ~ContainsMessageKey(content.toks)

\* C14 (as claimed): for a 200 answer whose first-choice content is plain
\* text, get_llm_response makes exactly one backend call and returns that
\* content unchanged.
C14_PlainTextReturned ==
    (LlmReturned /\ llm.context = <<>> /\ Answered2xx(llm.reply)
        /\ PlainText(ContentOf(llm.reply))) =>
        /\ llm.posts = 1
        /\ llm.returned = ContentOf(llm.reply)

\* the request asks to subscribe and carries the configured secret
Subscribing(args) ==
    /\ "hub.mode" \in DOMAIN args /\ args["hub.mode"] = "subscribe"
    /\ "hub.verify_token" \in DOMAIN args
    /\ args["hub.verify_token"] = WHATSAPP_VERIFY_TOKEN

\* C15 (as claimed): GET /whatsapp answers the hub.challenge value with
\* status 200 iff hub.mode is "subscribe" and hub.verify_token is the
\* configured secret, and 403 "Forbidden" for every other combination of
\* parameters, absent ones included.
C15_VerifyHandshake ==
    verify.pc = "answered" =>
        IF Subscribing(verify.args)
        THEN /\ verify.response.status = 200
             /\ "hub.challenge" \in DOMAIN verify.args =>
                    verify.response.body = verify.args["hub.challenge"]
        ELSE verify.response = Forbidden403

\* the part of C15 about requests that carry a hub.challenge
VerifyHandshakeWithChallenge ==
    (verify.pc = "answered" /\ "hub.challenge" \in DOMAIN verify.args) =>
        IF Subscribing(verify.args)
        THEN verify.response = [status |-> 200, body |-> verify.args["hub.challenge"]]
        ELSE verify.response = Forbidden403

\* the workers that called for this sender, and those whose row went in
AddersOf(phone) == {w \in DOMAIN adders : adders[w].phone = phone}
Inserters == {w \in DOMAIN adders : adders[w].id # 0}
\* every call made has completed, none with a store error
AddsSettled ==
    \A w \in DOMAIN adders : adders[w].pc \in {"idle", "done"} /\ ~adders[w].failed
\* every row the store ever held: those present at start-up (the clock
\* ticks once per insert) and those the workers inserted
EverInserted ==
    Prefill(clock - 3 - Cardinality(Inserters))
        \cup {Row(adders[w].id, adders[w].phone, "user", q) : w \in Inserters, q \in Queries}
\* the n most recently inserted rows of S
MostRecent(S, n) == {r \in S : Cardinality({o \in S : o.timestamp > r.timestamp}) < n}

\* C16: once interleaved add_message_to_history calls for a sender have all
\* completed without store error, the sender holds at most 20 rows and each
\* of its 20 most recently inserted rows is still there.
C16_ConcurrentTrimsKeepNewest20 ==
    AddsSettled =>
        \A phone \in Senders :
            AddersOf(phone) # {} =>
                /\ Cardinality(RowsOf(table, phone)) <= 20
                /\ MostRecent(RowsOf(EverInserted, phone), 20) \subseteq table

\* C16 witness: two calls for one sender interleaved (each selected after
\* the other's insert), both trimmed from their snapshots, one of them
\* from a stale one, and both completed
C16_Witness ==
    /\ AddsSettled
    /\ \E v, w \in AddersOf(KnownSender) :
          /\ v # w
          /\ adders[v].id < adders[w].id
          /\ adders[v].count = adders[w].count
          /\ adders[v].ids # {} /\ adders[v].ids = adders[w].ids
    /\ Cardinality(RowsOf(table, KnownSender)) = 20

\* the history fetch of the request has been made
HistoryFetched == CallIdx("fetch") # {}
\* every store call up to and including the fetch succeeded
StoreOkUntilFetch ==
    \A i \in CallIdx("fetch") : \A j \in 1..i : calls[j].op \in StoreOps => calls[j].ok
\* the prompt get_llm_response builds from the handler's arguments
HandlerPrompt == format_prompt(user_query.s, history, context)
LastOf(seq) == seq[Len(seq)]

PlaceholderReached ==
    /\ pc = "generate" /\ ~IsExc(HandlerPrompt)
    /\ HandlerPrompt.history_section = <<<<NoHistory>>>>

\* the namespace lookup of the request raised a store error
LookupFailed == \E i \in CallIdx("lookup") : ~calls[i].ok

\* C18: a failed namespace lookup gives None, as for an unknown sender:
\* whoever the sender is, the profile apology is sent, no fetch, embedding,
\* search or generation call is made, and the request is acknowledged.
C18_LookupErrorLooksUnknown ==
    LookupFailed =>
        /\ namespace = PyNone
        /\ namespace = get_user_namespace(UnknownSender, TRUE)
        /\ pc \in {"unknown_user", "done"}
        /\ NoRetrievalOrGeneration
        /\ Finished => (ProfileApologySent /\ response = Ok200)

\* C18 witness: a sender with a namespace row got the profile apology
\* after the lookup failed
C18_Witness ==
    /\ Finished /\ Parsed /\ HasNamespaceRow(sender_phone.s)
    /\ LookupFailed /\ ProfileApologySent

====
